---- MODULE Spec2Model ----
(***************************************************************************)
(* Model of the tau-bench phase-2 error-analysis scripts:                  *)
(*   src/phase2/error_analysis/classify_errors.py  (sampler, classifier,   *)
(*                                                  resumable controller)  *)
(*   src/phase2/error_analysis/analyze_crashes.py  (crash scanner)         *)
(***************************************************************************)
EXTENDS Integers, Sequences, FiniteSets, TLC

(***************************************************************************)
(* Bounds of the model                                                     *)
(***************************************************************************)
MaxEntries == 3      \* longest trajectory file (number of entries)
MaxSample == 2       \* largest sample_size handed to load_and_sample
RngMod == 2          \* number of states of the modelled generator
MaxCases == 3        \* entries of the trajectory file handed to process_file
MaxScanned == 2      \* entries of the trajectory file handed to scan_file
MaxStored == 6       \* stored classifications handed to extract_examples
MaxPersisted == 2    \* entries of the files whose persisted verdicts are examined
MaxTokens == 3       \* pieces of the system text handed to extract_policy
MaxDirs == 2         \* subdirectories of the trajectory directory

(***************************************************************************)
(* Program constants                                                       *)
(***************************************************************************)
DefaultSeed == 42    \* load_and_sample(..., seed=42), --seed default
BackOff == 4         \* time.sleep(2) before the retry, in half seconds
DefaultDelay == 1    \* classify_one(..., delay=0.5), in half seconds
MessageLimit == 200  \* str(e)[:200]
ShortMessage == 40   \* length of an exception message below the limit
LongMessage == 250   \* length of an exception message above the limit
PolicyLimit == 3000       \* characters kept by the fallback of extract_policy
ExamplesPerCategory == 5   \* extract_examples(..., n_per_category=5)

(***************************************************************************)
(* Optional values: a missing dictionary key is the empty set, a present   *)
(* key is the singleton of its value; Get is dict.get(key, default).       *)
(***************************************************************************)
Absent == {}
Some(v) == {v}
Get(opt, default) == IF opt = {} THEN default ELSE CHOOSE v \in opt : TRUE

(***************************************************************************)
(* Trajectory entries.  info.task is "absent" (no such key), "empty" (the  *)
(* key holds a falsy value such as {} or null) or "full"; info.error is    *)
(* the presence of the error key; traj is the number of messages.  An      *)
(* entry without the key info reads like one whose info has neither key.   *)
(***************************************************************************)
TaskIds == {1, 2, 3}
NoTaskId == 0        \* stands for an entry without the key task_id
Seeds == {DefaultSeed, DefaultSeed + 1}
SampleSizes == -1..MaxSample

Entry(tid, trial, reward, task, error, traj) ==
    [task_id |-> tid, trial |-> trial, reward |-> reward,
     info |-> [task |-> task, error |-> error], traj |-> traj]

\* zero-reward completed runs: every task at trial 0, task 1 also at trial 1
\* and once with an error key next to its task
FailureEntries ==
    { Entry(t, Some(0), Some(0), "full", FALSE, 1) : t \in TaskIds }
    \cup { Entry(1, Some(1), Some(0), "full", FALSE, 1) }
    \cup { Entry(1, Some(0), Some(0), "full", TRUE, 1) }

\* entries of the other shapes met in a trajectory file
OtherEntries ==
    { Entry(1, Some(0), Some(1), "full", FALSE, 1),     \* solved task
      Entry(1, Some(0), Some(0), "absent", TRUE, 0),    \* crashed run
      Entry(1, Some(0), Absent, "full", FALSE, 1),      \* no reward key
      Entry(1, Absent, Some(0), "full", FALSE, 0) }     \* task but empty traj

EntryDomain == FailureEntries \cup OtherEntries

RECURSIVE SeqsUpTo(_, _)
SeqsUpTo(S, n) ==
    IF n = 0 THEN { <<>> }
    ELSE LET shorter == SeqsUpTo(S, n - 1)
         IN  shorter \cup { Append(s, e) : s \in { x \in shorter : Len(x) = n - 1 }, e \in S }

Files == SeqsUpTo(EntryDomain, MaxEntries)

(***************************************************************************)
(* The process-wide random generator (module random).  seed() replaces the *)
(* whole state, every draw advances it.                                    *)
(***************************************************************************)
SeedRng(seed) == seed % RngMod
NextRng(r) == (r + 1) % RngMod
RandBelow(r, n) == r % n

\* random.sample(population, k) for a small population: k draws from a pool,
\* the drawn slot being refilled with the last live element of the pool.
RECURSIVE SampleFrom(_, _, _)
SampleFrom(pool, k, r) ==
    IF k = 0 THEN <<>>
    ELSE LET n == Len(pool)
             j == RandBelow(r, n) + 1
             rest == [ SubSeq(pool, 1, n - 1) EXCEPT ![IF j = n THEN 1 ELSE j] =
                         IF j = n THEN SubSeq(pool, 1, n - 1)[1] ELSE pool[n] ]
         IN  <<pool[j]>> \o SampleFrom(IF n = 1 THEN <<>> ELSE rest, k - 1, NextRng(r))

RECURSIVE AdvanceRng(_, _)
AdvanceRng(r, k) == IF k = 0 THEN r ELSE AdvanceRng(NextRng(r), k - 1)

(***************************************************************************)
(* load_and_sample                                                         *)
(***************************************************************************)
IsFailure_RewardDefaultZero(e) ==
    /\ Get(e.reward, 0) = 0
    /\ e.info.task # "absent"
    /\ e.traj > 0

\* the filter of the list comprehension
IsFailure(e) ==
    /\ Get(e.reward, 1) = 0
    /\ e.info.task # "absent"
    /\ e.traj > 0

Failures(data) == SelectSeq(data, IsFailure)

SeenStep_KeepsLast(seen, e) ==
    IF e.task_id \notin DOMAIN seen
       \/ Get(e.trial, 0) <= Get(seen[e.task_id].trial, 0)
    THEN [ t \in DOMAIN seen \cup {e.task_id} |->
             IF t = e.task_id THEN e ELSE seen[t] ]
    ELSE seen

\* one iteration of the deduplication loop over the dict `seen`
SeenStep(seen, e) ==
    IF e.task_id \notin DOMAIN seen
       \/ Get(e.trial, 0) < Get(seen[e.task_id].trial, 0)
    THEN [ t \in DOMAIN seen \cup {e.task_id} |->
             IF t = e.task_id THEN e ELSE seen[t] ]
    ELSE seen

RECURSIVE SeenOf(_)
SeenOf(failures) ==
    IF failures = <<>> THEN [ t \in {} |-> 0 ]
    ELSE SeenStep(SeenOf(SubSeq(failures, 1, Len(failures) - 1)),
                  failures[Len(failures)])

\* sorted(seen.values(), key=task_id)
RECURSIVE SortedByTaskId(_)
SortedByTaskId(seen) ==
    IF DOMAIN seen = {} THEN <<>>
    ELSE LET least == CHOOSE t \in DOMAIN seen : \A u \in DOMAIN seen : t <= u
         IN  <<seen[least]>> \o
             SortedByTaskId([ t \in DOMAIN seen \ {least} |-> seen[t] ])

Unique(data) == SortedByTaskId(SeenOf(Failures(data)))

ReturnsAll_Strict(nUnique, sample_size) == nUnique < sample_size

\* whether the deduplicated list is returned whole, without a draw
ReturnsAll(nUnique, sample_size) == nUnique <= sample_size

DrawState_NoReseed(r, seed) == r

\* the generator state the draw starts from: random.seed(seed) ran just before
DrawState(r, seed) == SeedRng(seed)

\* tid = entry["task_id"] raises KeyError for a failure without the key
DedupRaises(data) ==
    \E j \in 1..Len(Failures(data)) : Failures(data)[j].task_id = NoTaskId

\* outcome of one call, started with the generator in state r
LoadAndSample(data, sample_size, seed, r) ==
    LET unique == Unique(data)
        r0 == DrawState(r, seed)
    IN  IF DedupRaises(data)
        THEN [status |-> "raised", cases |-> <<>>, total |-> 0, rng |-> r]
        ELSE IF ReturnsAll(Len(unique), sample_size)
        THEN [status |-> "returned", cases |-> unique, total |-> Len(data), rng |-> r0]
        ELSE IF sample_size < 0
        THEN [status |-> "raised", cases |-> <<>>, total |-> 0, rng |-> r0]
        ELSE [status |-> "returned",
              cases |-> SampleFrom(unique, sample_size, r0),
              total |-> Len(data),
              rng |-> AdvanceRng(r0, sample_size)]

(***************************************************************************)
(* Responses of the provider.  call_llm either raises or returns a text;   *)
(* the text is abstracted to what parse_response can tell apart:           *)
(*   wrap   - "bare" (the whole text is one JSON value), "fenced" (the     *)
(*            value sits in a ``` block), "prose" (the value is embedded   *)
(*            in other words), "nojson" (no JSON value at all);            *)
(*   shape  - the kind of JSON value: "object", "array" or "number";       *)
(*   pc     - for an object, its primary_category: Absent or Some(value),  *)
(*            the value being a string, NullValue or ListValue (an array); *)
(*   braces - the object's text has a brace besides its outer pair.        *)
(***************************************************************************)
ERROR_TAXONOMY ==
    { "wrong_tool", "wrong_arguments", "policy_violation", "incomplete_execution",
      "premature_escalation", "information_error", "reasoning_failure",
      "user_simulator_error", "context_or_format_error" }

NullValue == "<null>"
ListValue == "<list>"

CategoryValues ==
    { "wrong_tool", "policy_violation", "parse_error", "api_error", "other",
      "made_up_category", NullValue, ListValue }

\* call_llm raises an exception whose message has the given length
ApiErrorOf(len) ==
    [kind |-> "raise", wrap |-> "none", shape |-> "none", pc |-> Absent,
     braces |-> FALSE, msg |-> len]
ApiError == ApiErrorOf(ShortMessage)
Text(wrap, shape, pc, braces) ==
    [kind |-> "text", wrap |-> wrap, shape |-> shape, pc |-> pc, braces |-> braces,
     msg |-> 0]

Responses ==
    { ApiError, ApiErrorOf(LongMessage), Text("nojson", "none", Absent, FALSE) }
    \cup { Text(w, "object", pc, b) :
             w \in {"bare", "fenced", "prose"},
             pc \in {Absent} \cup { Some(v) : v \in CategoryValues },
             b \in BOOLEAN }
    \cup { Text(w, sh, Absent, FALSE) :
             w \in {"bare", "fenced", "prose"}, sh \in {"array", "number"} }

\* results of parse_response: a dict (with its primary_category, if any) or
\* an exception other than JSONDecodeError leaving the function
Parsed(pc) == [status |-> "dict", pc |-> pc]
ParseRaised == [status |-> "raised", pc |-> Absent]
ParseErrorVerdict == Parsed(Some("parse_error"))

\* Strategy 1: json.loads(text); a dict with the key is returned, a number
\* makes the `in` test raise TypeError, anything else falls through
Strategy1(text) ==
    IF text.wrap # "bare" THEN "next"
    ELSE IF text.shape = "number" THEN "raise"
    ELSE IF text.shape = "object" /\ text.pc # Absent THEN "return"
    ELSE "next"

\* Strategy 2: the first {...} inside a ``` block, whatever its keys
Strategy2(text) == text.wrap = "fenced" /\ text.shape = "object"

\* Strategy 3: a brace-free {...} that holds "primary_category"
Strategy3(text) ==
    /\ text.wrap \in {"bare", "fenced", "prose"}
    /\ text.shape = "object"
    /\ text.pc # Absent
    /\ ~text.braces

parse_response(text) ==
    IF Strategy1(text) = "raise" THEN ParseRaised
    ELSE IF Strategy1(text) = "return" THEN Parsed(text.pc)
    ELSE IF Strategy2(text) THEN Parsed(text.pc)
    ELSE IF Strategy3(text) THEN Parsed(text.pc)
    ELSE ParseErrorVerdict

\* valid = set(ERROR_TAXONOMY.keys()) | {"parse_error", "api_error"}
ValidCategories == ERROR_TAXONOMY \cup {"parse_error", "api_error"}

\* result.get("primary_category"): None when the key is missing
GetCategory(parsed) == Get(parsed.pc, NullValue)

\* a list cannot be looked up in a set: the `not in valid` test raises
Unhashable(v) == v = ListValue

Coerced_KeepsUnknown(v) == v

\* the category left in the verdict by the validation
Coerced(v) == IF v \notin ValidCategories THEN "other" ELSE v

\* one pass through the body of the try block, given what call_llm did:
\* either the verdict that is returned, or an exception for the handler
Attempt(response) ==
    IF response.kind = "raise" THEN [status |-> "raised", category |-> "none"]
    ELSE LET parsed == parse_response(response)
         IN  IF parsed.status = "raised" THEN [status |-> "raised", category |-> "none"]
             ELSE IF Unhashable(GetCategory(parsed))
             THEN [status |-> "raised", category |-> "none"]
             ELSE [status |-> "returned", category |-> Coerced(GetCategory(parsed))]

\* Messages of a trajectory as build_prompt reads them: role is Absent (no
\* such key) or Some(value), the value being a string or NullValue; content
\* is "text", NullValue or ListValue (a list of parts).
TrajMessage(role, content) == [role |-> role, content |-> content]

\* sampled cases handed to classify_one: a first message with role system
\* followed by one message of the conversation
PromptCases ==
    { << TrajMessage(Some("system"), c), m >> :
        c \in {"text", NullValue},
        m \in { TrajMessage(Some("user"), "text"),
                TrajMessage(Some("user"), ListValue),
                TrajMessage(Some("assistant"), NullValue),
                TrajMessage(Absent, "text"),
                TrajMessage(Some(NullValue), "text") } }

\* extract_policy(traj[0].get("content", "")): `marker in system_content`
\* raises TypeError when the content is None
PolicyRaises(traj) ==
    /\ traj # << >>
    /\ traj[1].role = Some("system")
    /\ traj[1].content = NullValue

\* format_conversation for one message: msg.get("role", "unknown").upper()
\* raises on a None role, content.strip() on a content that is a list
ConversationRaises(m) == m.role = Some(NullValue) \/ m.content = ListValue

\* build_prompt(failure): the prompt is built, or an exception leaves it
build_prompt(traj) ==
    IF PolicyRaises(traj)
       \/ \E j \in 1..Len(traj) :
             traj[j].role # Some("system") /\ ConversationRaises(traj[j])
    THEN "raised"
    ELSE "built"

\* str(e) of the exception an attempt ends with: the provider's message, or
\* the TypeError of the parser or of the validation
Message(origin, len) == [origin |-> origin, len |-> len]
Raised(response) ==
    IF response.kind = "raise" THEN Message("provider", response.msg)
    ELSE Message("TypeError", ShortMessage)

Truncated_Whole(message) == message

\* str(e)[:200]
Truncated(message) ==
    IF message.len > MessageLimit THEN Message(message.origin, MessageLimit) ELSE message

\* the sleep that follows an external call inside classify_one: the
\* inter-call delay before a verdict is returned, the back-off before the
\* retry, nothing before the api_error verdict is returned
SleepAfter(attempt, status, delay) ==
    IF status = "returned" THEN delay
    ELSE IF attempt = 0 THEN BackOff
    ELSE 0

\* what classify_one does in order: external calls and sleeps
Call == [op |-> "call", time |-> 0]
Sleep(time) == [op |-> "sleep", time |-> time]
SleepEvents(time) == IF time > 0 THEN << Sleep(time) >> ELSE << >>

\* the outcome of classify_one: the verdict returned (its category and,
\* for api_error, the message in its explanation), or an exception
Returned(category, message, calls, events) ==
    [status |-> "returned", category |-> category, message |-> message,
     calls |-> calls, events |-> events]
Propagated ==
    [status |-> "raised", category |-> "none", message |-> Absent,
     calls |-> 0, events |-> << >>]

\* classify_one for a case whose prompt is built or not, given the
\* provider's behaviour at the first and at the second call
classify_one(prompt, first, second, delay) ==
    IF prompt = "raised" THEN Propagated
    ELSE IF Attempt(first).status = "returned"
    THEN Returned(Attempt(first).category, Absent, 1,
                  << Call >> \o SleepEvents(SleepAfter(0, "returned", delay)))
    ELSE IF Attempt(second).status = "returned"
    THEN Returned(Attempt(second).category, Absent, 2,
                  << Call >> \o SleepEvents(SleepAfter(0, "raised", delay))
                  \o << Call >> \o SleepEvents(SleepAfter(1, "returned", delay)))
    ELSE Returned("api_error", Some(Truncated(Raised(second))), 2,
                  << Call >> \o SleepEvents(SleepAfter(0, "raised", delay))
                  \o << Call >> \o SleepEvents(SleepAfter(1, "raised", delay)))

(***************************************************************************)
(* process_file: inputs, files on disk, results                            *)
(***************************************************************************)
\* trajectory files given to process_file: zero-reward entries of tasks
\* 1..n, each with a real ground truth or with a falsy info.task
ProcFiles ==
    UNION { { [ i \in 1..n |-> Entry(i, Some(0), Some(0), k[i], FALSE, 1) ] :
                k \in [1..n -> {"full", "empty"}] } : n \in 0..MaxCases }

\* entries that lack one of the expected keys: task_id (of a failure, of a
\* solved task), reward, info, trial
MalformedEntries(tid) ==
    { Entry(NoTaskId, Some(0), Some(0), "full", FALSE, 1),
      Entry(NoTaskId, Some(0), Some(1), "full", FALSE, 1),
      Entry(tid, Some(0), Absent, "full", FALSE, 1),
      Entry(tid, Some(0), Some(0), "absent", FALSE, 1),
      Entry(tid, Absent, Some(0), "full", FALSE, 1) }

\* trajectory files whose last entry is malformed
MalformedFiles ==
    { Append(f, e) : f \in { g \in ProcFiles : Len(g) <= 1 },
                     e \in MalformedEntries(2) }

ProcSizes == { MaxCases - 1, MaxCases }

\* --seed on the command line of the runs under observation: a seed other
\* than the default (process_file behaves alike for every seed given)
ProcSeeds == { DefaultSeed + 1 }

\* what the provider does at a call made by process_file
ProcResponses == { ApiError, Text("bare", "object", Some("wrong_tool"), FALSE) }

\* a file of the output directory: absent, truncated by open(path, "w") and
\* not yet rewritten, or holding what json.dump wrote
Missing(empty) == [state |-> "absent", content |-> empty]
Torn(empty) == [state |-> "torn", content |-> empty]
Stored(content) == [state |-> "ok", content |-> content]

\* one element of the classifications list
Record(failure, category) ==
    [task_id |-> failure.task_id, trial |-> Get(failure.trial, 0), category |-> category]

CategoriesIn(classifications) ==
    { classifications[j].category : j \in 1..Len(classifications) }

CountOf_Presence(classifications, cat) ==
    IF \E j \in 1..Len(classifications) : classifications[j].category = cat THEN 1 ELSE 0

CountOf(classifications, cat) ==
    Cardinality({ j \in 1..Len(classifications) : classifications[j].category = cat })

PercentTenths_Floor(count, total) ==
    IF total > 0 THEN (1000 * count) \div total ELSE 0

\* round(100 * count / total, 1), in tenths of a percent
PercentTenths(count, total) ==
    IF total > 0 THEN (2000 * count + total) \div (2 * total) ELSE 0

compute_summary(classifications) ==
    [ cat \in CategoriesIn(classifications) |->
        [count |-> CountOf(classifications, cat),
         percentage |-> PercentTenths(CountOf(classifications, cat), Len(classifications))] ]

\* the result dict built at the end of process_file
ResultOf(file, failures, classifications) ==
    [stats |-> [total_tasks |-> Cardinality({ file[j].task_id : j \in 1..Len(file) }),
                total_failures_in_file |->
                    Cardinality({ j \in 1..Len(file) : Get(file[j].reward, 1) = 0 }),
                unique_failures_sampled |-> Len(failures)],
     summary |-> compute_summary(classifications),
     classifications |-> classifications]

NoResult == ResultOf(<<>>, <<>>, <<>>)
NoCheckpoint == <<>>

\* the seed load_and_sample runs with when process_file calls it
ProcessFileSeed(seed) == DefaultSeed

ShortCircuit_Never(exists, force) == FALSE

\* total_tasks = len(set(e["task_id"] for e in ...)) raises KeyError when an
\* entry of the file has no task_id
TotalTasksRaises(file) == \E j \in 1..Len(file) : file[j].task_id = NoTaskId

\* "Skip if already completed"
ShortCircuit(exists, force) == exists /\ ~force

\* "Check for partial results from a previous interrupted run"
Resumes(exists, force) == exists /\ ~force

Skipped_Never(failure) == FALSE

\* `if not task`: info.task is missing or falsy
Skipped(failure) == failure.info.task # "full"

(***************************************************************************)
(* State                                                                   *)
(***************************************************************************)
VARIABLES
    data,        \* contents of the trajectory file
    rng,         \* state of the process-wide random generator
    lsArgs,      \* arguments of the load_and_sample calls under observation
    lsOut,       \* outcome of the latest load_and_sample call
    lsFirst,     \* outcome of the first load_and_sample call
    lsAgain,     \* TRUE once load_and_sample has been called a second time
    coCase,      \* traj of the failure case handed to classify_one
    coIn,        \* what the provider does at the two calls classify_one may make
    coOut,       \* outcome of the classify_one call under observation
    cfg,         \* sample size and seed the operator runs the command with
    resultFile,  \* <config>.json of the output directory
    partialFile, \* <config>.partial.json of the output directory
    pc,          \* where the running process_file stands; "idle" when none runs
    run,         \* local variables of the running process_file
    calls,       \* external calls made by the latest invocation
    inv,         \* force and dry_run of the latest invocation
    ret,         \* how the latest invocation ended
    done,        \* sample indices classified since the last fresh start
    again,       \* indices the running invocation classified once more
    lost,        \* verdicts of the killed invocation missing from the checkpoint
    sinceCall,   \* time slept since the latest external call of the invocation
    crIn,        \* entries of the trajectory file handed to the crash scanner
    crOut,       \* crash list of scan_file and crash entries of save_json
    exIn,        \* stored classifications handed to extract_examples
    exOut,       \* outcome of extract_examples
    epIn,        \* system text handed to extract_policy
    epOut,       \* what extract_policy returned
    dfIn,        \* base directory and model size handed to discover_files
    dfOut        \* what discover_files returned

sampleVars == <<lsArgs, lsOut, lsFirst, lsAgain>>
classifyVars == <<coCase, coIn, coOut>>
diskVars == <<resultFile, partialFile>>
procVars ==
    <<cfg, resultFile, partialFile, pc, run, calls, inv, ret, done, again, lost, sinceCall>>
prepVars == <<epIn, epOut, dfIn, dfOut>>
reportVars == <<crIn, crOut, exIn, exOut, prepVars>>
vars == <<data, rng, sampleVars, classifyVars, procVars, reportVars>>

NoCall == [status |-> "none", cases |-> <<>>, total |-> 0]
NoVerdict ==
    [status |-> "none", category |-> "none", message |-> Absent,
     calls |-> 0, events |-> << >>]

\* the parts of the state a specification does not exercise stay as here
SampleAtRest ==
    /\ lsArgs = [sample_size |-> 0, seed |-> DefaultSeed]
    /\ lsOut = NoCall
    /\ lsFirst = NoCall
    /\ lsAgain = FALSE

ClassifyAtRest ==
    /\ coCase = << >>
    /\ coIn = <<ApiError, ApiError>>
    /\ coOut = NoVerdict

IdleRun ==
    [failures |-> <<>>, i |-> 0, classifications |-> <<>>,
     resumed |-> FALSE, checkpoint |-> <<>>]
NoReturn == [kind |-> "none", value |-> NoResult]
NoCallYet == -1      \* stands for: the invocation has made no external call

NoScan == [stage |-> "none", crashes |-> << >>, json |-> << >>]
NoExamples == [status |-> "none", examples |-> << >>]

NoPolicy == [status |-> "none", text |-> << >>, chars |-> 0]
NoFiles == [status |-> "none", files |-> << >>]

PrepAtRest ==
    /\ epIn = << >>
    /\ epOut = NoPolicy
    /\ dfIn = [exists |-> FALSE, dirs |-> {}, model_size |-> "14b"]
    /\ dfOut = NoFiles

ReportAtRest ==
    /\ crIn = << >>
    /\ crOut = NoScan
    /\ exIn = << >>
    /\ exOut = NoExamples
    /\ PrepAtRest

ProcessAtRest ==
    /\ resultFile = Missing(NoResult)
    /\ partialFile = Missing(NoCheckpoint)
    /\ pc = "idle"
    /\ run = IdleRun
    /\ calls = 0
    /\ inv = [force |-> FALSE, dry_run |-> FALSE]
    /\ ret = NoReturn
    /\ done = {}
    /\ again = {}
    /\ lost = 0
    /\ sinceCall = NoCallYet

(***************************************************************************)
(* Specification of the sampler: a file, a sample size and a seed are      *)
(* fixed; load_and_sample is invoked again and again, other code drawing   *)
(* random numbers in between.                                              *)
(***************************************************************************)
InitSample ==
    /\ data \in Files
    /\ rng \in 0..(RngMod - 1)
    /\ lsArgs \in [sample_size : SampleSizes, seed : Seeds]
    /\ lsOut = NoCall
    /\ lsFirst = NoCall
    /\ lsAgain = FALSE
    /\ ClassifyAtRest
    /\ cfg = [sample_size |-> 0, seed |-> DefaultSeed]
    /\ ProcessAtRest
    /\ ReportAtRest

CallLoadAndSample ==
    LET out == LoadAndSample(data, lsArgs.sample_size, lsArgs.seed, rng)
        res == [status |-> out.status, cases |-> out.cases, total |-> out.total]
    IN  /\ lsAgain' = (lsFirst.status # "none")
        /\ lsOut' = res
        /\ lsFirst' = IF lsFirst.status = "none" THEN res ELSE lsFirst
        /\ rng' = out.rng
        /\ UNCHANGED <<data, lsArgs, classifyVars, reportVars, procVars>>

\* any other use of module random between two calls
OtherRandomUse ==
    /\ rng' = NextRng(rng)
    /\ UNCHANGED <<data, sampleVars, classifyVars, reportVars, procVars>>

NextSample == CallLoadAndSample \/ OtherRandomUse

SpecSample == InitSample /\ [][NextSample]_vars

(***************************************************************************)
(* Specification of the classifier: the provider's behaviour at the two    *)
(* possible calls is fixed, classify_one is applied to it.                 *)
(***************************************************************************)
InitClassify ==
    /\ data = <<>>
    /\ rng = 0
    /\ SampleAtRest
    /\ coCase \in PromptCases
    /\ coIn \in Responses \X Responses
    /\ coOut = NoVerdict
    /\ cfg = [sample_size |-> 0, seed |-> DefaultSeed]
    /\ ProcessAtRest
    /\ ReportAtRest

CallClassifyOne ==
    /\ coOut.status = "none"
    /\ coOut' = classify_one(build_prompt(coCase), coIn[1], coIn[2], DefaultDelay)
    /\ UNCHANGED <<data, rng, sampleVars, coCase, coIn, reportVars, procVars>>

NextClassify == CallClassifyOne

SpecClassify == InitClassify /\ [][NextClassify]_vars

(***************************************************************************)
(* Specification of the run controller: one trajectory file and one        *)
(* command line (sample size, seed); process_file is invoked for the file  *)
(* again and again, with or without --force and --dry-run, and the process *)
(* may be killed between any two of its steps.                             *)
(***************************************************************************)
Init ==
    /\ data \in ProcFiles \cup MalformedFiles
    /\ rng = 0
    /\ SampleAtRest
    /\ ClassifyAtRest
    /\ cfg \in [sample_size : ProcSizes, seed : ProcSeeds]
    /\ ProcessAtRest
    /\ ReportAtRest

\* what a dry run prints before sys.exit(0): the prompt of one failure
DryRunOutput(failure) == [prompt_of |-> failure.task_id]

\* the invocation ends without having started the loop
EndsAtOnce(kind, value, r) ==
    /\ pc' = "idle"
    /\ run' = IdleRun
    /\ ret' = [kind |-> kind, value |-> value]
    /\ rng' = r
    /\ UNCHANGED <<done, diskVars>>

\* process_file from its entry to the head of the classification loop
StartRun(force, dry_run) ==
    /\ pc = "idle"
    /\ inv' = [force |-> force, dry_run |-> dry_run]
    /\ calls' = 0
    /\ again' = {}
    /\ lost' = 0
    /\ sinceCall' = NoCallYet
    /\ UNCHANGED <<data, sampleVars, classifyVars, reportVars, cfg>>
    /\ IF ShortCircuit(resultFile.state # "absent", force)
       THEN IF resultFile.state = "ok"
            THEN EndsAtOnce("stored", resultFile.content, rng)
            ELSE EndsAtOnce("raised", NoResult, rng)
       ELSE LET out == LoadAndSample(data, cfg.sample_size, ProcessFileSeed(cfg.seed), rng)
            IN  IF out.status = "raised" THEN EndsAtOnce("raised", NoResult, out.rng)
                ELSE IF TotalTasksRaises(data) THEN EndsAtOnce("raised", NoResult, out.rng)
                ELSE IF out.cases = <<>> THEN EndsAtOnce("none", NoResult, out.rng)
                ELSE IF dry_run THEN EndsAtOnce("exit", DryRunOutput(out.cases[1]), out.rng)
                ELSE IF Resumes(partialFile.state # "absent", force)
                        /\ partialFile.state = "torn"
                THEN EndsAtOnce("raised", NoResult, out.rng)
                ELSE LET resumed == Resumes(partialFile.state # "absent", force)
                         start == IF resumed THEN partialFile.content ELSE <<>>
                     IN  /\ pc' = "loop"
                         /\ run' = [failures |-> out.cases,
                                    i |-> Len(start) + 1,
                                    classifications |-> start,
                                    resumed |-> resumed,
                                    checkpoint |-> start]
                         /\ ret' = NoReturn
                         /\ rng' = out.rng
                         /\ done' = IF force THEN {} ELSE done
                         /\ UNCHANGED diskVars

InLoop == pc = "loop" /\ run.i <= Len(run.failures)

\* "Safety net": the entry has no info.task, the loop moves on
SkipEntry ==
    /\ InLoop
    /\ Skipped(run.failures[run.i])
    /\ run' = [run EXCEPT !.i = run.i + 1]
    /\ UNCHANGED <<data, rng, sampleVars, classifyVars, reportVars, cfg, diskVars, pc, calls,
                   inv, ret, done, again, lost, sinceCall>>

\* classify_one returned: the record is appended to the list in memory
Appended(category) ==
    /\ run' = [run EXCEPT !.classifications =
                 Append(run.classifications, Record(run.failures[run.i], category))]
    /\ again' = again \cup ({run.i} \cap done)
    /\ done' = done \cup {run.i}
    /\ pc' = "ckpt_open"

\* the first external call of classify_one for the entry at the loop index
FirstCall(response) ==
    /\ InLoop
    /\ ~Skipped(run.failures[run.i])
    /\ calls' = calls + 1
    /\ IF Attempt(response).status = "returned"
       THEN Appended(Attempt(response).category)
       ELSE pc' = "retry" /\ UNCHANGED <<run, done, again>>
    /\ sinceCall' = SleepAfter(0, Attempt(response).status, DefaultDelay)
    /\ UNCHANGED <<data, rng, sampleVars, classifyVars, reportVars, cfg, diskVars, inv, ret, lost>>

\* the second external call, after the back-off
SecondCall(response) ==
    /\ pc = "retry"
    /\ calls' = calls + 1
    /\ Appended(IF Attempt(response).status = "returned"
                THEN Attempt(response).category ELSE "api_error")
    /\ sinceCall' = SleepAfter(1, Attempt(response).status, DefaultDelay)
    /\ UNCHANGED <<data, rng, sampleVars, classifyVars, reportVars, cfg, diskVars, inv, ret, lost>>

\* open(partial_path, "w") truncates the checkpoint
OpenCheckpoint ==
    /\ pc = "ckpt_open"
    /\ partialFile' = Torn(NoCheckpoint)
    /\ pc' = "ckpt_write"
    /\ UNCHANGED <<data, rng, sampleVars, classifyVars, reportVars, cfg, resultFile, run, calls,
                   inv, ret, done, again, lost, sinceCall>>

\* json.dump of the whole list, the file is closed, the loop moves on
WriteCheckpoint ==
    /\ pc = "ckpt_write"
    /\ partialFile' = Stored(run.classifications)
    /\ run' = [run EXCEPT !.i = run.i + 1]
    /\ pc' = "loop"
    /\ UNCHANGED <<data, rng, sampleVars, classifyVars, reportVars, cfg, resultFile, calls,
                   inv, ret, done, again, lost, sinceCall>>

\* the loop is over: open(result_path, "w") truncates the result file
OpenResult ==
    /\ pc = "loop"
    /\ run.i > Len(run.failures)
    /\ resultFile' = Torn(NoResult)
    /\ pc' = "res_write"
    /\ UNCHANGED <<data, rng, sampleVars, classifyVars, reportVars, cfg, partialFile, run, calls,
                   inv, ret, done, again, lost, sinceCall>>

\* json.dump of the result
WriteResult ==
    /\ pc = "res_write"
    /\ resultFile' = Stored(ResultOf(data, run.failures, run.classifications))
    /\ pc' = "unlink"
    /\ UNCHANGED <<data, rng, sampleVars, classifyVars, reportVars, cfg, partialFile, run, calls,
                   inv, ret, done, again, lost, sinceCall>>

\* the checkpoint is removed if there is one, process_file returns the result
UnlinkAndReturn ==
    /\ pc = "unlink"
    /\ partialFile' = Missing(NoCheckpoint)
    /\ ret' = [kind |-> "result", value |-> resultFile.content]
    /\ pc' = "idle"
    /\ run' = IdleRun
    /\ sinceCall' = NoCallYet
    /\ UNCHANGED <<data, rng, sampleVars, classifyVars, reportVars, cfg, resultFile, calls,
                   inv, done, again, lost>>

\* the verdicts a restart finds in the checkpoint
Checkpointed == IF partialFile.state = "ok" THEN Len(partialFile.content) ELSE 0

\* the process is killed; only the files survive
Kill ==
    /\ pc # "idle"
    /\ pc' = "idle"
    /\ run' = IdleRun
    /\ ret' = [kind |-> "killed", value |-> NoResult]
    /\ lost' = IF Len(run.classifications) > Checkpointed
               THEN Len(run.classifications) - Checkpointed ELSE 0
    /\ sinceCall' = NoCallYet
    /\ UNCHANGED <<data, rng, sampleVars, classifyVars, reportVars, cfg, diskVars, calls,
                   inv, done, again>>

Next ==
    \/ \E force \in BOOLEAN, dry_run \in BOOLEAN : StartRun(force, dry_run)
    \/ SkipEntry
    \/ \E response \in ProcResponses : FirstCall(response)
    \/ \E response \in ProcResponses : SecondCall(response)
    \/ OpenCheckpoint
    \/ WriteCheckpoint
    \/ OpenResult
    \/ WriteResult
    \/ UnlinkAndReturn
    \/ Kill

Spec == Init /\ [][Next]_vars

(***************************************************************************)
(* Specification of the persisted verdicts: process_file over short files, *)
(* the provider answering each call in any of the ways classify_one tells  *)
(* apart.                                                                  *)
(***************************************************************************)
VerdictFiles == { f \in ProcFiles : Len(f) \in 1..MaxPersisted }

\* one response for each way a verdict comes about: call_llm raises, the
\* text holds no JSON, the object lacks the category, names a category of the
\* taxonomy, an unknown one, null, or a list
VerdictResponses ==
    { ApiError, Text("nojson", "none", Absent, FALSE),
      Text("bare", "object", Absent, FALSE) }
    \cup { Text("bare", "object", Some(v), FALSE) :
             v \in {"wrong_tool", "made_up_category", NullValue, ListValue} }

InitVerdicts ==
    /\ data \in VerdictFiles
    /\ rng = 0
    /\ SampleAtRest
    /\ ClassifyAtRest
    /\ cfg \in [sample_size : {MaxPersisted}, seed : ProcSeeds]
    /\ ProcessAtRest
    /\ ReportAtRest

NextVerdicts ==
    \/ \E force \in BOOLEAN : StartRun(force, FALSE)
    \/ SkipEntry
    \/ \E response \in VerdictResponses : FirstCall(response)
    \/ \E response \in VerdictResponses : SecondCall(response)
    \/ OpenCheckpoint
    \/ WriteCheckpoint
    \/ OpenResult
    \/ WriteResult
    \/ UnlinkAndReturn
    \/ Kill

SpecVerdicts == InitVerdicts /\ [][NextVerdicts]_vars

(***************************************************************************)
(* The crash scanner of analyze_crashes.py.  An info.error text is         *)
(* abstracted to what classify_crash reads in it: whether it contains      *)
(* "ContextWindowExceeded", whether it contains "Timeout", and the numbers *)
(* matched by the patterns "your request has N input tokens" and "maximum  *)
(* context length is N tokens" (Absent when the pattern does not match).   *)
(***************************************************************************)
ErrorMessage(ctx, timeout, tokens, limit) ==
    [ctx |-> ctx, timeout |-> timeout, tokens |-> tokens, limit |-> limit]

ErrorMessages ==
    { ErrorMessage(c, t, u, l) :
        c \in BOOLEAN, t \in BOOLEAN,
        u \in {Absent, Some(9000), Some(100)}, l \in {Absent, Some(8192)} }

\* entries of a trajectory file as scan_file reads them: info with or
\* without the key error
ScanEntries ==
    { [task_id |-> 3, error |-> e] : e \in {Absent} \cup { Some(m) : m \in ErrorMessages } }

\* crash_type, tokens_used and token_limit of the dict classify_crash
\* returns; None is Absent
classify_crash(error_msg) ==
    IF error_msg.ctx
    THEN [crash_type |-> "context_window",
          tokens_used |-> error_msg.tokens, token_limit |-> error_msg.limit]
    ELSE IF error_msg.timeout
    THEN [crash_type |-> "api_timeout", tokens_used |-> Absent, token_limit |-> Absent]
    ELSE [crash_type |-> "other", tokens_used |-> Absent, token_limit |-> Absent]

\* the entries scan_file counts as crashes, in file order
HasError(entry) == entry.error # Absent
ErrorsOf(entries) == SelectSeq(entries, HasError)

\* the crash list of scan_file
scan_file(entries) ==
    [ j \in 1..Len(ErrorsOf(entries)) |->
        classify_crash(Get(ErrorsOf(entries)[j].error, ErrorMessage(FALSE, FALSE, Absent, Absent))) ]

\* c["tokens_used"] - c["token_limit"] raises TypeError when only the
\* first number was found
OverByRaises(c) == c.tokens_used # Absent /\ c.token_limit = Absent

\* the entry save_json appends to output["crashes"] for one crash
CrashJson(c) ==
    IF c.tokens_used # Absent
    THEN [crash_type |-> c.crash_type,
          tokens_used |-> c.tokens_used,
          token_limit |-> c.token_limit,
          over_by |-> Some(Get(c.tokens_used, 0) - Get(c.token_limit, 0))]
    ELSE [crash_type |-> c.crash_type,
          tokens_used |-> Absent, token_limit |-> Absent, over_by |-> Absent]

(***************************************************************************)
(* Specification of the crash scanner: a trajectory file is scanned, then  *)
(* the crash list is written as JSON.                                      *)
(***************************************************************************)
InitCrash ==
    /\ data = <<>>
    /\ rng = 0
    /\ SampleAtRest
    /\ ClassifyAtRest
    /\ cfg = [sample_size |-> 0, seed |-> DefaultSeed]
    /\ ProcessAtRest
    /\ crIn \in SeqsUpTo(ScanEntries, MaxScanned)
    /\ crOut = NoScan
    /\ exIn = << >>
    /\ exOut = NoExamples
    /\ PrepAtRest

ScanFile ==
    /\ crOut.stage = "none"
    /\ crOut' = [stage |-> "scanned", crashes |-> scan_file(crIn), json |-> << >>]
    /\ UNCHANGED <<data, rng, sampleVars, classifyVars, procVars, crIn, exIn, exOut, prepVars>>

SaveJson ==
    /\ crOut.stage = "scanned"
    /\ crOut' =
          IF \E j \in 1..Len(crOut.crashes) : OverByRaises(crOut.crashes[j])
          THEN [stage |-> "raised", crashes |-> crOut.crashes, json |-> << >>]
          ELSE [stage |-> "saved", crashes |-> crOut.crashes,
                json |-> [ j \in 1..Len(crOut.crashes) |-> CrashJson(crOut.crashes[j]) ]]
    /\ UNCHANGED <<data, rng, sampleVars, classifyVars, procVars, crIn, exIn, exOut, prepVars>>

NextCrash == ScanFile \/ SaveJson

SpecCrash == InitCrash /\ [][NextCrash]_vars

(***************************************************************************)
(* extract_examples.  The explanation of a stored verdict is the value the *)
(* provider's JSON gave it: no such key, a text of some length, or null.   *)
(***************************************************************************)
NoExplanation == [kind |-> "absent", len |-> 0]
TextOf(len) == [kind |-> "text", len |-> len]
NullExplanation == [kind |-> "null", len |-> 0]

StoredVerdicts ==
    { [category |-> "wrong_tool", explanation |-> x] :
        x \in { NoExplanation, TextOf(10), TextOf(20), NullExplanation } }
    \cup { [category |-> "other", explanation |-> TextOf(10)] }

\* the classification records of all_results in iteration order, each with
\* its position as task_id
Numbered(verdicts) ==
    [ j \in 1..Len(verdicts) |->
        [task_id |-> j, category |-> verdicts[j].category,
         explanation |-> verdicts[j].explanation] ]

StoredLists == { Numbered(v) : v \in SeqsUpTo(StoredVerdicts, MaxStored) }

\* len(x["classification"].get("explanation", "")): "" when the key is
\* missing, TypeError when the value is None
KeyRaises(item) == item.explanation.kind = "null"
ExplanationLength(item) == IF item.explanation.kind = "text" THEN item.explanation.len ELSE 0

\* by_category[cat]
ItemsOf(all, cat) ==
    LET InCategory(x) == x.category = cat
    IN  SelectSeq(all, InCategory)

\* items.sort(key=...): ascending by explanation length, equal keys keep
\* their order
RECURSIVE SortedByLength(_)
SortedByLength(items) ==
    IF items = << >> THEN << >>
    ELSE LET rest == SortedByLength(SubSeq(items, 1, Len(items) - 1))
             last == items[Len(items)]
             k == Cardinality({ i \in 1..Len(rest) :
                                  ExplanationLength(rest[i]) <= ExplanationLength(last) })
         IN  SubSeq(rest, 1, k) \o << last >> \o SubSeq(rest, k + 1, Len(rest))

\* items[:n]
FirstN(items, n) == SubSeq(items, 1, IF Len(items) < n THEN Len(items) ELSE n)

extract_examples(all, n_per_category) ==
    IF \E j \in 1..Len(all) : KeyRaises(all[j])
    THEN [status |-> "raised", examples |-> << >>]
    ELSE [status |-> "returned",
          examples |-> [ cat \in { all[j].category : j \in 1..Len(all) } |->
                           FirstN(SortedByLength(ItemsOf(all, cat)), n_per_category) ]]

(***************************************************************************)
(* Specification of the example extraction: extract_examples is applied to *)
(* a list of stored classifications.                                       *)
(***************************************************************************)
InitExamples ==
    /\ data = <<>>
    /\ rng = 0
    /\ SampleAtRest
    /\ ClassifyAtRest
    /\ cfg = [sample_size |-> 0, seed |-> DefaultSeed]
    /\ ProcessAtRest
    /\ crIn = << >>
    /\ crOut = NoScan
    /\ exIn \in StoredLists
    /\ exOut = NoExamples
    /\ PrepAtRest

CallExtractExamples ==
    /\ exOut.status = "none"
    /\ exOut' = extract_examples(exIn, ExamplesPerCategory)
    /\ UNCHANGED <<data, rng, sampleVars, classifyVars, procVars, crIn, crOut, exIn, prepVars>>

NextExamples == CallExtractExamples

SpecExamples == InitExamples /\ [][NextExamples]_vars

(***************************************************************************)
(* extract_policy.  The system text is a sequence of pieces: a block of    *)
(* ordinary text, a white-space character, or one of the spellings of the  *)
(* heading that precedes the tool schemas.  Ordinary text holds no part of *)
(* a heading.  A returned string is described by the pieces wholly in it   *)
(* and by its length in characters.                                        *)
(***************************************************************************)
Headings ==
    { "#Available tools", "# Available tools", "#Available Tools",
      "# Available Tools", "#AVAILABLE TOOLS", "Available tools" }

Pieces == {"text", "space"} \cup Headings

PieceLen(piece) ==
    CASE piece = "text" -> 1400
      [] piece = "space" -> 1
      [] piece = "Available tools" -> 15
      [] piece \in {"# Available tools", "# Available Tools"} -> 17
      [] OTHER -> 16

RECURSIVE Chars(_)
Chars(text) == IF text = << >> THEN 0 ELSE PieceLen(Head(text)) + Chars(Tail(text))

SystemTexts == SeqsUpTo(Pieces, MaxTokens)

\* the markers extract_policy looks for, in the order it tries them
Markers == << "#Available tools", "# Available tools", "#Available Tools" >>

\* `marker in system_content`
Contains(text, marker) == \E j \in 1..Len(text) : text[j] = marker

\* system_content.split(marker)[0]: what precedes the first occurrence
BeforeFirst(text, markers) ==
    LET at == CHOOSE j \in 1..Len(text) :
                  /\ text[j] \in markers
                  /\ \A k \in 1..(j - 1) : text[k] \notin markers
    IN  SubSeq(text, 1, at - 1)

\* str.strip(): white space is removed at both ends
RECURSIVE StripLeft(_)
StripLeft(text) ==
    IF text # << >> /\ Head(text) = "space" THEN StripLeft(Tail(text)) ELSE text

RECURSIVE StripRight(_)
StripRight(text) ==
    IF text # << >> /\ text[Len(text)] = "space"
    THEN StripRight(SubSeq(text, 1, Len(text) - 1)) ELSE text

Strip(text) == StripRight(StripLeft(text))

\* system_content[:limit]
RECURSIVE WholePieces(_, _)
WholePieces(text, limit) ==
    IF text = << >> \/ PieceLen(Head(text)) > limit THEN << >>
    ELSE << Head(text) >> \o WholePieces(Tail(text), limit - PieceLen(Head(text)))

FirstChars(text, limit) ==
    [text |-> WholePieces(text, limit),
     chars |-> IF Chars(text) <= limit THEN Chars(text) ELSE limit]

Whole(text) == [text |-> text, chars |-> Chars(text)]

extract_policy(system_content) ==
    LET found == { m \in 1..Len(Markers) : Contains(system_content, Markers[m]) }
    IN  IF found # {}
        THEN LET first == CHOOSE m \in found : \A n \in found : m <= n
             IN  Whole(Strip(BeforeFirst(system_content, {Markers[first]})))
        ELSE FirstChars(system_content, PolicyLimit)

(***************************************************************************)
(* Specification of the policy extraction: extract_policy is applied to a  *)
(* system text.                                                            *)
(***************************************************************************)
InitPolicy ==
    /\ data = <<>>
    /\ rng = 0
    /\ SampleAtRest
    /\ ClassifyAtRest
    /\ cfg = [sample_size |-> 0, seed |-> DefaultSeed]
    /\ ProcessAtRest
    /\ crIn = << >>
    /\ crOut = NoScan
    /\ exIn = << >>
    /\ exOut = NoExamples
    /\ epIn \in SystemTexts
    /\ epOut = NoPolicy
    /\ dfIn = [exists |-> FALSE, dirs |-> {}, model_size |-> "14b"]
    /\ dfOut = NoFiles

CallExtractPolicy ==
    /\ epOut.status = "none"
    /\ epOut' = [status |-> "returned",
                 text |-> extract_policy(epIn).text,
                 chars |-> extract_policy(epIn).chars]
    /\ UNCHANGED <<data, rng, sampleVars, classifyVars, procVars,
                   crIn, crOut, exIn, exOut, epIn, dfIn, dfOut>>

NextPolicy == CallExtractPolicy

SpecPolicy == InitPolicy /\ [][NextPolicy]_vars

(***************************************************************************)
(* discover_files.  A subdirectory is named                                *)
(* {strategy}_{domain}_trials5_qwen_{size}, in lower case; it is described *)
(* by the three parts of its name and by whether it holds a JSON file.     *)
(* The model size is kept as the sequence of its character codes, as the   *)
(* code compares and sorts names character by character; no requested     *)
(* size occurs in the fixed parts of a name.                               *)
(***************************************************************************)
Strategies == << "act", "react", "tool-calling" >>
StrategyLabel(key) ==
    CASE key = "act" -> "ACT" [] key = "react" -> "ReAct" [] key = "tool-calling" -> "FC"
Domains == << "airline", "retail" >>
ModelSizes == {"4b", "14b", "32b"}

SizeChars(size) ==
    CASE size = "4b" -> << 52, 98 >>
      [] size = "14b" -> << 49, 52, 98 >>
      [] size = "32b" -> << 51, 50, 98 >>

SubDir(strategy, domain, size, has_json) ==
    [strategy |-> strategy, domain |-> domain, size |-> size, has_json |-> has_json]

SubDirs ==
    { SubDir(Strategies[a], Domains[b], size, j) :
        a \in 1..Len(Strategies), b \in 1..Len(Domains),
        size \in ModelSizes, j \in BOOLEAN }

SameName(d, e) == d.strategy = e.strategy /\ d.domain = e.domain /\ d.size = e.size

\* the contents of a trajectory directory: no two entries of the same name
DirListings ==
    { dirs \in { { seq[j] : j \in 1..Len(seq) } : seq \in SeqsUpTo(SubDirs, MaxDirs) } :
        \A d, e \in dirs : SameName(d, e) => d = e }

\* `sub in s` on strings
IsSubstring(sub, str) ==
    \E k \in 0..(Len(str) - Len(sub)) : SubSeq(str, k + 1, k + Len(sub)) = sub

\* the order of sorted() on strings
RECURSIVE LexLeq(_, _)
LexLeq(a, b) ==
    IF a = << >> THEN TRUE
    ELSE IF b = << >> THEN FALSE
    ELSE IF Head(a) # Head(b) THEN Head(a) < Head(b)
    ELSE LexLeq(Tail(a), Tail(b))

\* name.startswith(f"{strategy_key}_{domain}_") and model_size.lower() in name
NameMatches(d, strategy_key, domain, model_size) ==
    /\ d.strategy = strategy_key
    /\ d.domain = domain
    /\ IsSubstring(SizeChars(model_size), SizeChars(d.size))

ConfigName(model_size, strategy_key, domain) ==
    [model_size |-> model_size, strategy |-> StrategyLabel(strategy_key), domain |-> domain]

\* the inner loop: the first subdirectory, in sorted order, that matches and
\* holds a JSON file
FoundFor(dirs, strategy_key, domain, model_size) ==
    LET hits == { d \in dirs : NameMatches(d, strategy_key, domain, model_size) /\ d.has_json }
    IN  IF hits = {} THEN << >>
        ELSE LET first == CHOOSE d \in hits :
                              \A e \in hits : LexLeq(SizeChars(d.size), SizeChars(e.size))
             IN  << [path |-> first,
                     config_name |-> ConfigName(model_size, strategy_key, domain)] >>

RECURSIVE FilesFrom(_, _, _)
FilesFrom(dirs, model_size, c) ==
    IF c > Len(Strategies) * Len(Domains) THEN << >>
    ELSE FoundFor(dirs, Strategies[((c - 1) \div Len(Domains)) + 1],
                  Domains[((c - 1) % Len(Domains)) + 1], model_size)
         \o FilesFrom(dirs, model_size, c + 1)

discover_files(base, model_size) ==
    IF ~base.exists THEN << >> ELSE FilesFrom(base.dirs, model_size, 1)

(***************************************************************************)
(* Specification of the file discovery: discover_files is applied to a     *)
(* trajectory directory and a model size.                                  *)
(***************************************************************************)
InitDiscover ==
    /\ data = <<>>
    /\ rng = 0
    /\ SampleAtRest
    /\ ClassifyAtRest
    /\ cfg = [sample_size |-> 0, seed |-> DefaultSeed]
    /\ ProcessAtRest
    /\ crIn = << >>
    /\ crOut = NoScan
    /\ exIn = << >>
    /\ exOut = NoExamples
    /\ epIn = << >>
    /\ epOut = NoPolicy
    /\ dfIn \in [exists : BOOLEAN, dirs : DirListings, model_size : ModelSizes]
    /\ dfOut = NoFiles

CallDiscoverFiles ==
    /\ dfOut.status = "none"
    /\ dfOut' = [status |-> "returned",
                 files |-> discover_files([exists |-> dfIn.exists, dirs |-> dfIn.dirs],
                                          dfIn.model_size)]
    /\ UNCHANGED <<data, rng, sampleVars, classifyVars, procVars,
                   crIn, crOut, exIn, exOut, epIn, epOut, dfIn>>

NextDiscover == CallDiscoverFiles

SpecDiscover == InitDiscover /\ [][NextDiscover]_vars

(***************************************************************************)
(* Properties of the sampler                                               *)
(***************************************************************************)
CasesOf(out) == { out.cases[i] : i \in 1..Len(out.cases) }
TaskIdSeq(cases) == [ i \in 1..Len(cases) |-> cases[i].task_id ]

\* the three conditions of the selection rule, read off the entry itself
RewardIsZero(e) == e.reward = Some(0)
HasTask(e) == e.info.task \in {"empty", "full"}
HasTraj(e) == e.traj >= 1
MeetsRule(e) == RewardIsZero(e) /\ HasTask(e) /\ HasTraj(e)

\* the two entry shapes of the data model
CompletedShape(e) == HasTask(e) /\ e.traj >= 1
CrashedShape(e) == e.info.error /\ e.traj = 0

\* positions and task ids of the entries of the file that meet the rule
RulePositions == { p \in 1..Len(data) : MeetsRule(data[p]) }
RuleTaskIds == { data[p].task_id : p \in RulePositions }
TrialOf(e) == IF e.trial = {} THEN 0 ELSE CHOOSE v \in e.trial : TRUE

\* the position deduplication must keep for a task id: lowest trial, then
\* earliest in the file
KeptPosition(t) ==
    CHOOSE p \in RulePositions :
        /\ data[p].task_id = t
        /\ \A q \in RulePositions :
              data[q].task_id = t =>
                 \/ TrialOf(data[p]) < TrialOf(data[q])
                 \/ TrialOf(data[p]) = TrialOf(data[q]) /\ p <= q

\* C4: for a fixed file, sample size and seed every invocation of
\* load_and_sample returns the same task identifiers in the same order,
\* whatever was drawn from the generator before the call.
C4_Determinism ==
    (lsOut.status = "returned" /\ lsFirst.status = "returned")
        => TaskIdSeq(lsOut.cases) = TaskIdSeq(lsFirst.cases)

C4_Witness ==
    /\ lsAgain
    /\ lsOut.status = "returned"
    /\ Cardinality(RuleTaskIds) > lsArgs.sample_size
    /\ Len(lsOut.cases) >= 1
    /\ rng # SeedRng(lsArgs.seed)

\* C5: every returned entry has reward 0.0, an info.task and a non-empty
\* traj, hence exactly one of the two entry shapes; an entry lacking one of
\* the three is never returned, and an entry having all three is a
\* candidate (its task is in the result whenever nothing is sampled away).
C5_SelectionRule ==
    lsOut.status = "returned" =>
        /\ \A e \in CasesOf(lsOut) :
              /\ MeetsRule(e)
              /\ CompletedShape(e) # CrashedShape(e)
        /\ \A p \in 1..Len(data) :
              ~MeetsRule(data[p]) /\ data[p].task_id \notin RuleTaskIds
                  => \A e \in CasesOf(lsOut) : e.task_id # data[p].task_id
        /\ Cardinality(RuleTaskIds) <= lsArgs.sample_size
              => { e.task_id : e \in CasesOf(lsOut) } = RuleTaskIds

C5_Witness ==
    /\ lsOut.status = "returned"
    /\ Len(lsOut.cases) >= 1
    /\ \E p \in 1..Len(data) : data[p].reward = {} /\ HasTask(data[p]) /\ HasTraj(data[p])
    /\ \E p \in 1..Len(data) : RewardIsZero(data[p]) /\ HasTask(data[p]) /\ ~HasTraj(data[p])

\* what scan_file counts as a crash
CountedAsCrash(e) == e.info.error

\* C6: no entry that scan_file counts as a crash (info carries error) is
\* returned by load_and_sample.
C6_CrashedNeverSampled ==
    lsOut.status = "returned" => \A e \in CasesOf(lsOut) : ~CountedAsCrash(e)

\* C7: at most one returned entry per task_id, and it is the qualifying
\* entry of that task with the lowest trial, the first in the file among
\* those of equal trial.
C7_Deduplication ==
    lsOut.status = "returned" =>
        /\ \A i, j \in 1..Len(lsOut.cases) :
              lsOut.cases[i].task_id = lsOut.cases[j].task_id => i = j
        /\ \A i \in 1..Len(lsOut.cases) :
              lsOut.cases[i] = data[KeptPosition(lsOut.cases[i].task_id)]

C7_Witness ==
    /\ lsOut.status = "returned"
    /\ \E i \in 1..Len(lsOut.cases) : \E p, q \in RulePositions :
          /\ p < q
          /\ data[p].task_id = lsOut.cases[i].task_id
          /\ data[q].task_id = lsOut.cases[i].task_id
          /\ TrialOf(data[p]) = TrialOf(data[q])
          /\ data[p] # data[q]
          /\ lsOut.cases[i] = data[p]

\* C8: never more than sample_size entries; the whole deduplicated set in
\* ascending task_id order when it has at most sample_size entries; else
\* exactly sample_size distinct entries of it.
C8_SampleSize ==
    lsOut.status = "returned" =>
        /\ Len(lsOut.cases) <= lsArgs.sample_size
        /\ Cardinality(RuleTaskIds) <= lsArgs.sample_size =>
              /\ { e.task_id : e \in CasesOf(lsOut) } = RuleTaskIds
              /\ Len(lsOut.cases) = Cardinality(RuleTaskIds)
              /\ \A i, j \in 1..Len(lsOut.cases) :
                    i < j => lsOut.cases[i].task_id < lsOut.cases[j].task_id
        /\ Cardinality(RuleTaskIds) > lsArgs.sample_size =>
              /\ Len(lsOut.cases) = lsArgs.sample_size
              /\ Cardinality(CasesOf(lsOut)) = lsArgs.sample_size
              /\ \A e \in CasesOf(lsOut) :
                    e.task_id \in RuleTaskIds /\ e = data[KeptPosition(e.task_id)]

C8_Witness ==
    /\ lsOut.status = "returned"
    /\ lsArgs.sample_size = 2
    /\ Cardinality(RuleTaskIds) = 3
    /\ Len(lsOut.cases) = 2

(***************************************************************************)
(* Properties of the classifier                                            *)
(***************************************************************************)
\* the verdict parse_response extracts from the first response, if any
FirstParsed == parse_response(coIn[1])
FirstIsVerdict == coIn[1].kind = "text" /\ FirstParsed.status = "dict"

\* what the verdict names as its category: nothing (no key), or the value
NamedCategory == FirstParsed.pc

\* C10: a parsed verdict whose primary_category is not in the taxonomy plus
\* {parse_error, api_error}, or that has no primary_category, is returned
\* with primary_category other; one whose category is in that set is
\* returned with the category unchanged.
C10_CategoryValidation ==
    (coOut.status = "returned" /\ FirstIsVerdict) =>
        IF \E v \in NamedCategory : v \in ValidCategories
        THEN coOut.category \in NamedCategory
        ELSE coOut.category = "other"

\* the external calls among the things classify_one did
CallsIn(events) == Cardinality({ j \in 1..Len(events) : events[j].op = "call" })
FirstRaised == Attempt(coIn[1]).status = "raised"
SecondRaised == Attempt(coIn[2]).status = "raised"

\* C11: for one case classify_one issues at most two external calls; the
\* second is issued exactly when the first attempt raised, and only after
\* the back-off sleep; after an attempt that succeeds no call follows; when
\* both attempts raise, the verdict api_error is returned, carrying the
\* message of the last exception cut to the limit.
C11_RetryPolicy ==
    (coOut.status # "none" /\ build_prompt(coCase) = "built") =>
        /\ coOut.status = "returned"
        /\ CallsIn(coOut.events) = coOut.calls
        /\ coOut.calls <= 2
        /\ coOut.calls = 2 <=> FirstRaised
        /\ coOut.calls = 2 =>
              /\ Len(coOut.events) >= 3
              /\ coOut.events[1] = Call
              /\ coOut.events[2] = Sleep(BackOff)
              /\ coOut.events[3] = Call
        /\ ~FirstRaised => coOut.category = Attempt(coIn[1]).category
        /\ (FirstRaised /\ ~SecondRaised) => coOut.category = Attempt(coIn[2]).category
        /\ (FirstRaised /\ SecondRaised) =>
              /\ coOut.category = "api_error"
              /\ \E m \in coOut.message :
                    /\ m.origin = Raised(coIn[2]).origin
                    /\ m.len <= MessageLimit
                    /\ m.len = IF Raised(coIn[2]).len > MessageLimit
                              THEN MessageLimit ELSE Raised(coIn[2]).len

C11_Witness ==
    /\ coOut.status = "returned"
    /\ coIn[1].kind = "raise"
    /\ coIn[2] = ApiErrorOf(LongMessage)
    /\ coOut.calls = 2
    /\ coOut.category = "api_error"
    /\ coOut.message = Some(Message("provider", MessageLimit))

\* C12: whatever the sampled case and whatever the provider does, no
\* exception leaves classify_one: every invocation returns a verdict.
C12_NeverPropagates == coOut.status # "raised"

\* the same JSON value as the response t carries, presented another way
Presented(t, wrap) == [t EXCEPT !.wrap = wrap]
IsVerdictObject(t) == t.kind = "text" /\ t.shape = "object" /\ t.pc # Absent
HasNoObject(t) == t.kind = "text" /\ t.shape # "object"

\* C13: a verdict object is parsed to the same verdict whether the response
\* is the bare object, the object in a fenced block or the object inside
\* prose; a response without any JSON object is parsed to parse_error.
C13_ParsingRobustness ==
    coOut.status # "none" =>
        /\ IsVerdictObject(coIn[1]) =>
              \A w \in {"bare", "fenced", "prose"} :
                 parse_response(Presented(coIn[1], w)) = Parsed(coIn[1].pc)
        /\ HasNoObject(coIn[1]) => parse_response(coIn[1]) = ParseErrorVerdict

(***************************************************************************)
(* Properties of the run controller                                        *)
(***************************************************************************)
SkippedCount(failures) ==
    Cardinality({ j \in 1..Len(failures) : failures[j].info.task # "full" })

\* C1: a run resumed without force from a checkpoint of K classifications
\* ends with a final list whose first K entries are the checkpointed ones
\* and whose length is N minus the number of skipped sampled entries,
\* wherever the skipped entries lie in the sample.
C1_ResumeCorrect ==
    (pc = "unlink" /\ run.resumed) =>
        LET final == resultFile.content.classifications
            K == Len(run.checkpoint)
        IN  /\ Len(final) >= K
            /\ SubSeq(final, 1, K) = run.checkpoint
            /\ Len(final) = Len(run.failures) - SkippedCount(run.failures)

C3_AtMostOneLost ==
    /\ lost <= 1
    /\ Cardinality(again) <= 1

\* C9: the sample process_file classifies is the one load_and_sample draws
\* for the seed the caller supplied.
C9_CallerSeedUsed ==
    pc # "idle" =>
        run.failures = LoadAndSample(data, cfg.sample_size, cfg.seed, rng).cases

\* distance between two naturals
Distance(a, b) == IF a >= b THEN a - b ELSE b - a

\* C14: when process_file returns after the loop reached the end of the
\* sample, the result file holds the accumulated classifications and a
\* summary with one entry per category occurring in them, giving its count
\* and, in tenths of a percent, its share of the total rounded to the
\* nearest tenth; and no checkpoint file exists.
C14_Completion ==
    ret.kind = "result" =>
        /\ resultFile.state = "ok"
        /\ ret.value = resultFile.content
        /\ partialFile.state = "absent"
        /\ LET list == resultFile.content.classifications
               summary == resultFile.content.summary
               total == Len(list)
           IN  /\ DOMAIN summary = { list[j].category : j \in 1..total }
               /\ \A cat \in DOMAIN summary :
                     /\ summary[cat].count =
                           Cardinality({ j \in 1..total : list[j].category = cat })
                     /\ 2 * Distance(summary[cat].percentage * total,
                                     1000 * summary[cat].count) <= total

C14_Witness ==
    /\ ret.kind = "result"
    /\ Len(resultFile.content.classifications) = 3
    /\ DOMAIN resultFile.content.summary = {"wrong_tool", "api_error"}
    /\ resultFile.content.summary["wrong_tool"].count = 2
    /\ resultFile.content.summary["wrong_tool"].percentage = 667
    /\ partialFile.state = "absent"

\* an entry that lacks a key the scripts expect
LacksField(e) ==
    \/ e.task_id = NoTaskId
    \/ e.trial = Absent
    \/ e.reward = Absent
    \/ e.info.task = "absent"
    \/ e.traj = 0
HasMalformedEntry == \E j \in 1..Len(data) : LacksField(data[j])
TornFileMet == resultFile.state = "torn" \/ partialFile.state = "torn"

\* C15: for a file in which some entry lacks an expected field, process_file
\* never terminates with an error on account of that entry: an invocation
\* that met no truncated output file does not raise, and when it completes
\* the run no entry lacking reward, info or traj is among its records.
C15_MalformedNeverFatal ==
    HasMalformedEntry =>
        /\ (ret.kind = "raised") => TornFileMet
        /\ (ret.kind = "result") =>
              \A j \in 1..Len(ret.value.classifications) :
                 \A k \in 1..Len(data) :
                    (data[k].reward = Absent \/ data[k].info.task = "absent"
                       \/ data[k].traj = 0)
                        => ret.value.classifications[j].task_id # data[k].task_id

\* the file has an entry that meets the selection rule
HasFailures ==
    \E j \in 1..Len(data) :
       data[j].reward = Some(0) /\ data[j].info.task # "absent" /\ data[j].traj > 0

\* the first entry of the sample process_file draws
FirstSampled == LoadAndSample(data, cfg.sample_size, DefaultSeed, rng).cases[1]

\* C16: an invocation with dry_run set makes no external call, writes
\* neither the result nor the checkpoint file and does not enter the loop;
\* it terminates the program after printing a prompt exactly when the file
\* has failures and no stored result, and the prompt is that of the first
\* sampled failure.
C16_DryRun ==
    [][ (pc = "idle" /\ inv'.dry_run) =>
            /\ pc' = "idle"
            /\ calls' = 0
            /\ resultFile' = resultFile
            /\ partialFile' = partialFile
            /\ (ret'.kind = "exit") <=> (HasFailures /\ resultFile.state = "absent")
            /\ (ret'.kind = "exit") => ret'.value = DryRunOutput(FirstSampled) ]_vars

\* C17: whenever an invocation makes an external call after an earlier one,
\* at least the inter-call delay has been slept since that earlier call,
\* whether it succeeded or raised.
C17_DelayBetweenCalls ==
    [][ (pc \in {"loop", "retry"} /\ calls' = calls + 1 /\ sinceCall # NoCallYet)
            => sinceCall >= DefaultDelay ]_vars

\* C18: when the loop stands at a sampled entry whose info.task is missing
\* or empty, the step the invocation takes makes no external call, appends
\* no record, writes no checkpoint and moves the loop to the next entry.
C18_SkipWithoutTask ==
    [][ (/\ pc = "loop"
         /\ run.i <= Len(run.failures)
         /\ run.failures[run.i].info.task \in {"absent", "empty"}
         /\ pc' # "idle")
            => /\ calls' = calls
               /\ run'.classifications = run.classifications
               /\ run'.failures = run.failures
               /\ run'.i = run.i + 1
               /\ pc' = "loop"
               /\ partialFile' = partialFile ]_vars

C18_Witness ==
    /\ pc = "loop"
    /\ ~run.resumed
    /\ run.i = 2
    /\ Len(run.failures) >= 2
    /\ run.failures[1].info.task = "empty"
    /\ run.failures[2].info.task = "full"
    /\ run.classifications = << >>
    /\ calls = 0

\* no task_id occurs twice in a classification list
DistinctTaskIds(list) ==
    \A j, k \in 1..Len(list) : list[j].task_id = list[k].task_id => j = k

\* C23: whatever runs, kills and restarts came before, every task_id
\* appears at most once in the classification list of the checkpoint and
\* in that of the final result.
C23_NoDuplicateTask ==
    /\ partialFile.state = "ok" => DistinctTaskIds(partialFile.content)
    /\ resultFile.state = "ok" => DistinctTaskIds(resultFile.content.classifications)

\* the values primary_category may take in a persisted record
ClosedVerdictSet == ERROR_TAXONOMY \cup {"parse_error", "api_error", "other"}

CategoriesOf(list) == { list[j].category : j \in 1..Len(list) }

\* C24: in every checkpoint and every final result written by process_file
\* the category of each classification record is a member of the taxonomy
\* or one of parse_error, api_error, other.
C24_ClosedVerdictSet ==
    /\ partialFile.state = "ok" => CategoriesOf(partialFile.content) \subseteq ClosedVerdictSet
    /\ resultFile.state = "ok" =>
          CategoriesOf(resultFile.content.classifications) \subseteq ClosedVerdictSet

\* a finished run has just written a result holding a coerced or a
\* parse_error verdict, the checkpoint with the same records still in place
C24_Witness ==
    /\ pc = "unlink"
    /\ partialFile.state = "ok"
    /\ resultFile.state = "ok"
    /\ resultFile.content.classifications = partialFile.content
    /\ CategoriesOf(partialFile.content) = {"other", "parse_error"}

\* C25: whenever no process_file run is active (after a normal return, a
\* kill at any point, a forced re-run), the final result file and the
\* checkpoint file do not both exist.
C25_NeverBothFiles ==
    pc = "idle" => ~(resultFile.state # "absent" /\ partialFile.state # "absent")

\* list begins with the records of prefix
HasPrefix(list, prefix) ==
    /\ Len(prefix) <= Len(list)
    /\ \A j \in 1..Len(prefix) : list[j] = prefix[j]

\* C26: a run started without force (and not as a dry run) while a
\* checkpoint exists resumes from it, also when a final result exists
\* beside the checkpoint: it enters the loop with the checkpoint's verdicts,
\* and the list it returns begins with them.
C26_ResumesFromCheckpoint ==
    [][ /\ (pc = "idle" /\ partialFile.state = "ok"
                /\ ~inv'.force /\ ~inv'.dry_run) =>
              /\ pc' = "loop"
              /\ run'.resumed
              /\ run'.classifications = partialFile.content
        /\ (pc = "unlink" /\ pc' = "idle" /\ run.resumed /\ ret'.kind = "result") =>
              HasPrefix(ret'.value.classifications, run.checkpoint) ]_vars

\* the tasks whose checkpointed verdict is api_error or parse_error
FailedVerdictTasks(list) ==
    { list[j].task_id : j \in { k \in 1..Len(list) :
                                  list[k].category \in {"api_error", "parse_error"} } }

\* C27: an api_error or parse_error verdict is written to the checkpoint
\* with the other verdicts, and a run that resumed from the checkpoint
\* (started without force) makes no external call for a case whose verdict
\* of that kind is in the checkpoint.
C27_FailedVerdictKept ==
    [][ /\ (pc = "ckpt_write" /\ pc' = "loop") =>
              partialFile'.content = run.classifications
        /\ (pc = "loop" /\ calls' = calls + 1 /\ run.resumed) =>
              run.failures[run.i].task_id \notin FailedVerdictTasks(run.checkpoint) ]_vars

\* C28: for a file none of whose entries passes the failure filter, every
\* invocation of process_file makes no external call, leaves the result
\* file and the checkpoint file absent and returns None (so main adds no
\* result for the config), having loaded the file anew.
C28_NothingToClassify ==
    [][ (pc = "idle" /\ Failures(data) = << >>) =>
          /\ pc' = "idle"
          /\ calls' = 0
          /\ resultFile'.state = "absent"
          /\ partialFile'.state = "absent"
          /\ ret' = [kind |-> "none", value |-> NoResult] ]_vars

RECURSIVE SumOfCounts(_, _)
SumOfCounts(summary, cats) ==
    IF cats = {} THEN 0
    ELSE LET cat == CHOOSE c \in cats : TRUE
         IN  summary[cat].count + SumOfCounts(summary, cats \ {cat})

\* C29: in a final result the classification records are no more than
\* stats.unique_failures_sampled, and the counts of the summary's
\* categories add up to the number of classification records.
C29_ResultCounts ==
    resultFile.state = "ok" =>
        /\ Len(resultFile.content.classifications)
              <= resultFile.content.stats.unique_failures_sampled
        /\ SumOfCounts(resultFile.content.summary, DOMAIN resultFile.content.summary)
              = Len(resultFile.content.classifications)

\* a run that resumed from a checkpoint has written a result with as many
\* records as failures were sampled, two of them of the same category
C29_Witness ==
    /\ pc = "unlink"
    /\ run.resumed
    /\ ~inv.force
    /\ run.checkpoint # << >>
    /\ resultFile.state = "ok"
    /\ Len(resultFile.content.classifications)
          = resultFile.content.stats.unique_failures_sampled
    /\ \E cat \in DOMAIN resultFile.content.summary :
          resultFile.content.summary[cat].count >= 2

(***************************************************************************)
(* Properties of the crash scanner                                         *)
(***************************************************************************)
\* the info.error text of the j-th crash of the scanned file
ErrorOf(j) == Get(ErrorsOf(crIn)[j].error, ErrorMessage(FALSE, FALSE, Absent, Absent))
BothNumbers(msg) == msg.tokens # Absent /\ msg.limit # Absent

\* C19: an error text containing ContextWindowExceeded gives crash type
\* context_window, also when it contains Timeout; when the text holds both
\* numbers, tokens_used and token_limit are those numbers and the JSON
\* output holds them with over_by = tokens_used - token_limit; a text
\* containing Timeout gives api_timeout, any other text gives other.
C19_CrashCategorisation ==
    crOut.stage # "none" =>
        \A j \in 1..Len(ErrorsOf(crIn)) :
           LET msg == ErrorOf(j)
               c == crOut.crashes[j]
           IN  /\ c.crash_type =
                     IF msg.ctx THEN "context_window"
                     ELSE IF msg.timeout THEN "api_timeout" ELSE "other"
               /\ (msg.ctx /\ BothNumbers(msg)) =>
                     /\ c.tokens_used = msg.tokens
                     /\ c.token_limit = msg.limit
                     /\ crOut.stage # "scanned" =>
                           /\ crOut.stage = "saved"
                           /\ crOut.json[j].crash_type = "context_window"
                           /\ crOut.json[j].tokens_used = msg.tokens
                           /\ crOut.json[j].token_limit = msg.limit
                           /\ \E u \in msg.tokens : \E l \in msg.limit :
                                 crOut.json[j].over_by = Some(u - l)

\* C30: save_json completes for every crash list of scan_file, with one
\* entry per crash: a context_window crash whose text held both numbers is
\* emitted with tokens_used, token_limit and over_by, and a crash for which
\* a number could not be extracted is emitted all the same.
C30_SaveJsonCompletes ==
    crOut.stage \notin {"none", "scanned"} =>
        /\ crOut.stage = "saved"
        /\ Len(crOut.json) = Len(crOut.crashes)
        /\ \A j \in 1..Len(crOut.crashes) :
              /\ crOut.json[j].crash_type = crOut.crashes[j].crash_type
              /\ (crOut.crashes[j].tokens_used # Absent
                     /\ crOut.crashes[j].token_limit # Absent) =>
                    /\ crOut.json[j].tokens_used = crOut.crashes[j].tokens_used
                    /\ crOut.json[j].token_limit = crOut.crashes[j].token_limit
                    /\ crOut.json[j].over_by # Absent

(***************************************************************************)
(* Properties of the policy extraction                                     *)
(***************************************************************************)
\* C21: extract_policy returns the text before the first Available-tools
\* heading, whatever its letter case and with or without the hash (white
\* space at the ends of the returned text aside); a text without such a
\* heading yields its first 3000 characters.
C21_PolicyExtraction ==
    epOut.status = "returned" =>
        IF \E h \in Headings : Contains(epIn, h)
        THEN /\ Strip(epOut.text) = Strip(BeforeFirst(epIn, Headings))
             /\ epOut.chars = Chars(epOut.text)
        ELSE /\ epOut.text = FirstChars(epIn, PolicyLimit).text
             /\ epOut.chars = FirstChars(epIn, PolicyLimit).chars

(***************************************************************************)
(* Properties of the file discovery                                        *)
(***************************************************************************)
\* C22: every file discover_files returns lies in a subdirectory whose
\* model size is the requested one, and no two returned files belong to
\* the same strategy/domain configuration.
C22_RequestedSizeOnly ==
    dfOut.status = "returned" =>
        /\ \A j \in 1..Len(dfOut.files) : dfOut.files[j].path.size = dfIn.model_size
        /\ \A j, k \in 1..Len(dfOut.files) :
              dfOut.files[j].config_name = dfOut.files[k].config_name => j = k

(***************************************************************************)
(* Properties of the example extraction                                    *)
(***************************************************************************)
\* the records of exIn in a category, and those in a list of examples
StoredIn(cat) == { exIn[j] : j \in { i \in 1..Len(exIn) : exIn[i].category = cat } }
Listed(examples) == { examples[j] : j \in 1..Len(examples) }

\* C20: extract_examples returns, for each category present in the stored
\* classifications, a list of at most five distinct records of that
\* category, and no record of the category left out of the list has a
\* strictly shorter explanation than a record in it.
C20_ShortestExamples ==
    exOut.status # "none" =>
        /\ exOut.status = "returned"
        /\ DOMAIN exOut.examples = { exIn[j].category : j \in 1..Len(exIn) }
        /\ \A cat \in DOMAIN exOut.examples :
              LET chosen == exOut.examples[cat]
              IN  /\ Len(chosen) <= 5
                  /\ Cardinality(Listed(chosen)) = Len(chosen)
                  /\ Listed(chosen) \subseteq StoredIn(cat)
                  /\ \A x \in StoredIn(cat) \ Listed(chosen) :
                        \A y \in Listed(chosen) :
                           ~(ExplanationLength(x) < ExplanationLength(y))

====
